---- MODULE Spec2Model ----
(***************************************************************************)
(* A model of bellman's multicore.rs: the threaded Worker (CpuPool +       *)
(* crossbeam scope), the single-threaded fallback Worker, the process-wide *)
(* CPU-count cache and log2_floor.                                         *)
(*                                                                         *)
(* Each part of the file is exercised by a specification of its own:       *)
(*   SpecNew      concurrent calls of Worker::new()                        *)
(*   SpecWorker   SpecNew plus direct new_with_cpus calls, clones and      *)
(*                method calls on the Workers built                        *)
(*   SpecScope    one Worker::scope call and the closures spawned in it    *)
(*   SpecCompute  Worker::compute calls and the polling of their handles;  *)
(*                FairSpecCompute adds fair scheduling                     *)
(*   SpecLog      log2_floor and Worker::log_num_cpus                      *)
(* SpecScope, SpecCompute and SpecLog cover both builds: `backend` is      *)
(* chosen in the initial state and never changes.                          *)
(* The variables of the parts a specification does not exercise keep their *)
(* initial values.                                                         *)
(***************************************************************************)
EXTENDS Integers, Sequences, FiniteSets, TLC

VARIABLES
    \* ---- process-wide CPU-count cache and Worker::new() ----
    NUM_CPUS,     \* static NUM_CPUS: AtomicUsize
    HAS_LOADED,   \* static HAS_LOADED: AtomicBool
    detected,     \* the value num_cpus::get() returns in this process
    newPc,        \* per thread: position inside Worker::new()
    workers,      \* per thread: the Workers it has constructed, in order
    numStores,    \* history: how many times NUM_CPUS.store has executed
    handles,      \* per thread, per Worker it holds: the CpuPool the Worker
                  \*   holds, named by the position of the Worker whose
                  \*   construction created it
    observed      \* history: <<the self the last method call saw>>, <<>> if none

VARIABLES
    \* ---- build configuration ----
    backend,      \* "multicore" or "fallback": the cfg(feature = "multicore") switch
    \* ---- one Worker::scope call ----
    scWorker,     \* the Worker scope is called on
    scPc,         \* "idle", "in_f", "f_done", "returned" or "panicked"
    scElements,   \* the `elements` argument
    scChunk,      \* the chunk_size handed to f
    scFCalls,     \* how many times f has been invoked
    scF,          \* f's outcome: "none", "panic" or <<"ret", r>>
    scResult,     \* what scope returned: <<>> while it has not, else <<r>>
    task,         \* per child closure: "none", "spawned", "running", "locked",
                  \*   "done" or "panicked"
    parent,       \* per child closure: who spawned it (0 is f itself)
    stack,        \* fallback: the closures being executed inline, innermost last
    issued,       \* history: the closures in the order spawn was called
    counter,      \* the shared counter the closures increment
    lockHolder    \* the closure holding the counter's mutex (0: free)

VARIABLES
    \* ---- Worker::compute calls and their handles ----
    cpWorker,     \* the Worker compute is called on
    job,          \* per compute call, the task given to the pool: "none",
                  \*   "queued", "running", "finished" or "cancelled"
    queue,        \* multicore: the pool's queue of tasks not yet started
    fOut,         \* per compute call: what f returns, <<"Ok", v>> or <<"Err", e>>
                  \*   ("none" before the call)
    executed,     \* per compute call: f has been executed to its end
    slot,         \* per handle: the result it holds, <<>> or <<outcome>>
    handle,       \* per handle: "none", "held", "dropped" or "poll_panic"
    yielded,      \* history: the terminal values poll has yielded
    sawNotReady   \* history: a poll of the handle yielded NotReady

VARIABLES
    \* ---- one call of log2_floor, directly or through log_num_cpus ----
    overflowChecks, \* the build checks arithmetic overflow (debug) or wraps
    lgWorker,     \* the Worker log_num_cpus is called on
    lgVia,        \* "none", "log_num_cpus" or "direct" (a call as in the test)
    lgPc,         \* "idle", "assert", "loop", "returned", "assert_failed"
                  \*   or "overflow_panic"
    lgNum,        \* log2_floor's argument num
    lgPow,        \* log2_floor's local pow
    lgRet         \* the value returned: <<>> while none, else <<p>>

newVars == <<NUM_CPUS, HAS_LOADED, detected, newPc, workers, numStores,
             handles, observed>>
scopeVars == <<scWorker, scPc, scElements, scChunk, scFCalls, scF, scResult,
               task, parent, stack, issued, counter, lockHolder>>
computeVars == <<cpWorker, job, queue, fOut, executed, slot, handle, yielded,
                 sawNotReady>>
logVars == <<overflowChecks, lgWorker, lgVia, lgPc, lgNum, lgPow, lgRet>>
vars == <<backend, newVars, scopeVars, computeVars, logVars>>
notNewVars == <<backend, scopeVars, computeVars, logVars>>
notScopeVars == <<backend, newVars, computeVars, logVars>>
notComputeVars == <<backend, newVars, scopeVars, logVars>>
notLogVars == <<backend, newVars, scopeVars, computeVars>>

(***************************************************************************)
(* Bounds of the model.                                                    *)
(***************************************************************************)
NThreads == 2       \* threads calling Worker::new() concurrently
MaxCalls == 2       \* Worker::new() calls per thread
MaxCpus == 3        \* largest core count considered
MaxElements == 4    \* largest `elements` handed to scope
MaxTasks == 3       \* child closures spawned inside one multicore scope call
MaxInline == 5      \* child closures spawned inside one fallback scope call
MaxResult == 2      \* f returns a value in 1..MaxResult
MaxJobs == 2        \* compute calls
WordBits == 8       \* width of usize in the model (64 on the usual targets)
MaxPow == 12        \* log2_floor's loop is followed while pow < MaxPow

Threads == 1..NThreads
Tasks == 1..(IF MaxInline > MaxTasks THEN MaxInline ELSE MaxTasks)
Jobs == 1..MaxJobs
Backends == {"multicore", "fallback"}

\* pub static NUM_CPUS: AtomicUsize = AtomicUsize::new(12)
NumCpusPlaceholder == 12

(***************************************************************************)
(* Worker::new_with_cpus: the Worker value; the pool is a CpuPool of       *)
(* `cpus` threads.                                                         *)
(***************************************************************************)
new_with_cpus(cpus) == [cpus |-> cpus, pool |-> cpus]

\* The Worker of the fallback backend: a unit struct (pub struct Worker;).
FallbackWorker == [unit |-> TRUE]

(***************************************************************************)
(* The values the variables of a part hold while no specification          *)
(* exercises it.                                                           *)
(***************************************************************************)
NewIdle ==
    /\ NUM_CPUS = NumCpusPlaceholder
    /\ HAS_LOADED = FALSE
    /\ detected = 1
    /\ newPc = [t \in Threads |-> "idle"]
    /\ workers = [t \in Threads |-> <<>>]
    /\ numStores = 0
    /\ handles = [t \in Threads |-> <<>>]
    /\ observed = <<>>

ScopeIdle ==
    /\ scWorker = FallbackWorker
    /\ scPc = "idle"
    /\ scElements = 0
    /\ scChunk = 0
    /\ scFCalls = 0
    /\ scF = "none"
    /\ scResult = <<>>
    /\ task = [i \in Tasks |-> "none"]
    /\ parent = [i \in Tasks |-> 0]
    /\ stack = <<>>
    /\ issued = <<>>
    /\ counter = 0
    /\ lockHolder = 0

ComputeIdle ==
    /\ cpWorker = FallbackWorker
    /\ job = [j \in Jobs |-> "none"]
    /\ queue = <<>>
    /\ fOut = [j \in Jobs |-> "none"]
    /\ executed = [j \in Jobs |-> FALSE]
    /\ slot = [j \in Jobs |-> <<>>]
    /\ handle = [j \in Jobs |-> "none"]
    /\ yielded = [j \in Jobs |-> <<>>]
    /\ sawNotReady = [j \in Jobs |-> FALSE]

LogIdle ==
    /\ overflowChecks = FALSE
    /\ lgWorker = FallbackWorker
    /\ lgVia = "none"
    /\ lgPc = "idle"
    /\ lgNum = 0
    /\ lgPow = 0
    /\ lgRet = <<>>

(***************************************************************************)
(* Worker::new(), one atomic access per step (all accesses are SeqCst).    *)
(***************************************************************************)
NewCall(t) ==
    /\ newPc[t] = "idle"
    /\ Len(workers[t]) < MaxCalls
    /\ newPc' = [newPc EXCEPT ![t] = "load_flag"]
    /\ UNCHANGED <<NUM_CPUS, HAS_LOADED, detected, workers, numStores, handles, observed>>
    /\ UNCHANGED notNewVars

\* A plausible slip: the negation of the flag test dropped.
NewLoadFlagInverted(t) ==
    /\ newPc[t] = "load_flag"
    /\ newPc' = [newPc EXCEPT ![t] = IF HAS_LOADED THEN "store_num" ELSE "load_num"]
    /\ UNCHANGED <<NUM_CPUS, HAS_LOADED, detected, workers, numStores, handles, observed>>
    /\ UNCHANGED notNewVars

\* As if the flag were not consulted: every call detects and stores.
NewLoadFlagIgnored(t) ==
    /\ newPc[t] = "load_flag"
    /\ newPc' = [newPc EXCEPT ![t] = "store_num"]
    /\ UNCHANGED <<NUM_CPUS, HAS_LOADED, detected, workers, numStores, handles, observed>>
    /\ UNCHANGED notNewVars

\* if !HAS_LOADED.load(Ordering::SeqCst) { ... }
NewLoadFlag(t) ==
    /\ newPc[t] = "load_flag"
    /\ newPc' = [newPc EXCEPT ![t] = IF ~HAS_LOADED THEN "store_num" ELSE "load_num"]
    /\ UNCHANGED <<NUM_CPUS, HAS_LOADED, detected, workers, numStores, handles, observed>>
    /\ UNCHANGED notNewVars

\* As if the detected count never reached the cache.
NewStoreNumDropped(t) ==
    /\ newPc[t] = "store_num"
    /\ numStores' = numStores + 1
    /\ newPc' = [newPc EXCEPT ![t] = "store_flag"]
    /\ UNCHANGED <<NUM_CPUS, HAS_LOADED, detected, workers, handles, observed>>
    /\ UNCHANGED notNewVars

\* NUM_CPUS.store(num_cpus::get(), Ordering::SeqCst)
NewStoreNum(t) ==
    /\ newPc[t] = "store_num"
    /\ NUM_CPUS' = detected
    /\ numStores' = numStores + 1
    /\ newPc' = [newPc EXCEPT ![t] = "store_flag"]
    /\ UNCHANGED <<HAS_LOADED, detected, workers, handles, observed>>
    /\ UNCHANGED notNewVars

\* HAS_LOADED.store(true, Ordering::SeqCst)
NewStoreFlag(t) ==
    /\ newPc[t] = "store_flag"
    /\ HAS_LOADED' = TRUE
    /\ newPc' = [newPc EXCEPT ![t] = "load_num"]
    /\ UNCHANGED <<NUM_CPUS, detected, workers, numStores, handles, observed>>
    /\ UNCHANGED notNewVars

\* As if a CpuPool of no threads could be built.
CpuPoolNewNeverPanics(size) == FALSE

\* pool: CpuPool::new(cpus) panics for a pool of no threads (futures-cpupool
\* asserts pool_size > 0 when it creates the pool).
CpuPoolNewPanics(size) == size = 0

\* Thread t evaluates Worker { cpus: cpus, pool: CpuPool::new(cpus) }: the
\* panic of CpuPool::new unwinds t before a Worker exists, else t holds a new
\* Worker with a pool of its own.
Construct(t, cpus) ==
    IF CpuPoolNewPanics(cpus)
    THEN /\ newPc' = [newPc EXCEPT ![t] = "panicked"]
         /\ UNCHANGED <<workers, handles>>
    ELSE /\ newPc' = [newPc EXCEPT ![t] = "idle"]
         /\ workers' = [workers EXCEPT ![t] = Append(@, new_with_cpus(cpus))]
         /\ handles' = [handles EXCEPT ![t] =
                            Append(@, Len(@) + 1)]

\* Self::new_with_cpus(NUM_CPUS.load(Ordering::SeqCst))
NewLoadNum(t) ==
    /\ newPc[t] = "load_num"
    /\ Construct(t, NUM_CPUS)
    /\ UNCHANGED <<NUM_CPUS, HAS_LOADED, detected, numStores, observed>>
    /\ UNCHANGED notNewVars

InitNew ==
    /\ NUM_CPUS = NumCpusPlaceholder
    /\ HAS_LOADED = FALSE
    /\ detected \in 1..MaxCpus
    /\ newPc = [t \in Threads |-> "idle"]
    /\ workers = [t \in Threads |-> <<>>]
    /\ numStores = 0
    /\ handles = [t \in Threads |-> <<>>]
    /\ observed = <<>>
    /\ backend = "multicore"
    /\ ScopeIdle
    /\ ComputeIdle
    /\ LogIdle

NextNew ==
    \E t \in Threads :
        \/ NewCall(t)
        \/ NewLoadFlag(t)
        \/ NewStoreNum(t)
        \/ NewStoreFlag(t)
        \/ NewLoadNum(t)

SpecNew == InitNew /\ [][NextNew]_vars

\* Every Worker any thread has built.
AllWorkers == UNION {{workers[t][i] : i \in 1..Len(workers[t])} : t \in Threads}

(***************************************************************************)
(* The Workers in use: besides Worker::new(), a thread calls               *)
(* new_with_cpus directly (it is pub(crate)), clones a Worker it holds and *)
(* calls the methods of a Worker it holds.                                 *)
(***************************************************************************)
\* The threads whose direct calls, clones and method calls are followed; the
\* other threads only call Worker::new().
Users == {1}

\* Worker::new_with_cpus(n) called from inside the crate.
NewWithCpusCall(t, n) ==
    /\ newPc[t] = "idle"
    /\ Len(workers[t]) < MaxCalls
    /\ Construct(t, n)
    /\ UNCHANGED <<NUM_CPUS, HAS_LOADED, detected, numStores, observed>>
    /\ UNCHANGED notNewVars

\* As if clone built its Worker anew from the cached core count.
CloneRebuilt(t, i) ==
    /\ newPc[t] = "idle"
    /\ i \in 1..Len(workers[t])
    /\ Len(workers[t]) < MaxCalls
    /\ workers' = [workers EXCEPT ![t] = Append(@, new_with_cpus(NUM_CPUS))]
    /\ handles' = [handles EXCEPT ![t] =
                       Append(@, Len(@) + 1)]
    /\ UNCHANGED <<NUM_CPUS, HAS_LOADED, detected, newPc, numStores, observed>>
    /\ UNCHANGED notNewVars

\* #[derive(Clone)]: cpus is copied, pool.clone() is a handle to the same pool.
Clone(t, i) ==
    /\ newPc[t] = "idle"
    /\ i \in 1..Len(workers[t])
    /\ Len(workers[t]) < MaxCalls
    /\ workers' = [workers EXCEPT ![t] = Append(@, workers[t][i])]
    /\ handles' = [handles EXCEPT ![t] =
                       Append(@, handles[t][i])]
    /\ UNCHANGED <<NUM_CPUS, HAS_LOADED, detected, newPc, numStores, observed>>
    /\ UNCHANGED notNewVars

\* log_num_cpus(&self), compute(&self, f), scope(&self, elements, f): each
\* borrows the Worker immutably, so all the call does to the Worker is read it.
MethodCall(t, i) ==
    /\ newPc[t] = "idle"
    /\ i \in 1..Len(workers[t])
    /\ observed' = <<workers[t][i]>>
    /\ UNCHANGED <<NUM_CPUS, HAS_LOADED, detected, newPc, workers, numStores, handles>>
    /\ UNCHANGED notNewVars

InitWorker ==
    /\ NUM_CPUS = NumCpusPlaceholder
    /\ HAS_LOADED = FALSE
    /\ detected \in 0..MaxCpus
    /\ newPc = [t \in Threads |-> "idle"]
    /\ workers = [t \in Threads |-> <<>>]
    /\ numStores = 0
    /\ handles = [t \in Threads |-> <<>>]
    /\ observed = <<>>
    /\ backend = "multicore"
    /\ ScopeIdle
    /\ ComputeIdle
    /\ LogIdle

NextWorker ==
    \/ NextNew
    \/ \E t \in Users :
           \/ \E n \in 0..MaxCpus : NewWithCpusCall(t, n)
           \/ \E i \in 1..MaxCalls : Clone(t, i)
           \/ \E i \in 1..MaxCalls : MethodCall(t, i)

SpecWorker == InitWorker /\ [][NextWorker]_vars

(***************************************************************************)
(* C5: whatever the interleaving of Worker::new() calls, every Worker      *)
(* built has cpus equal to the detected core count, never the placeholder  *)
(* 12, so any two Workers agree on cpus.                                   *)
(***************************************************************************)
C5_AllWorkersDetected ==
    /\ \A w \in AllWorkers : w.cpus = detected /\ w.cpus # NumCpusPlaceholder
    /\ \A w1, w2 \in AllWorkers : w1.cpus = w2.cpus

\* Two concurrent first calls both stored, and every call has returned.
C5_Witness ==
    /\ numStores >= 2
    /\ \A t \in Threads : Len(workers[t]) = MaxCalls /\ newPc[t] = "idle"
(***************************************************************************)
(* Worker::scope.  The caller's f and the closures it spawns are the       *)
(* environment: f spawns closures through the scope handle and returns a   *)
(* value or panics; a closure may spawn further closures through the       *)
(* handle it is given, then locks the counter's mutex, increments the      *)
(* counter and unlocks, or panics instead.                                 *)
(***************************************************************************)

\* A plausible slip: the small case (elements < cpus) forgotten.
chunk_size_no_small_case(elements, cpus) == elements \div cpus

\* A plausible slip: the quotient rounded up instead of down.
chunk_size_rounded_up(elements, cpus) ==
    IF elements < cpus THEN 1 ELSE (elements + cpus - 1) \div cpus

\* let chunk_size = if elements < self.cpus { 1 } else { elements / self.cpus };
chunk_size(elements, cpus) ==
    IF elements < cpus THEN 1 ELSE elements \div cpus

\* The chunk size each backend's scope hands to f:
\*   multicore  f(scope, chunk_size)
\*   fallback   f(&DummyScope, elements)
ChunkArg(w, elements) ==
    IF backend = "multicore" THEN chunk_size(elements, w.cpus) ELSE elements

\* How many closures one scope call of the model spawns at most.
TaskLimit == IF backend = "multicore" THEN MaxTasks ELSE MaxInline

Top == stack[Len(stack)]

\* The thread of control that may take a step of closure i: its own thread
\* in the multicore backend; in the fallback backend the closure must be the
\* innermost call in progress on the one calling thread.
TaskMayStep(i) ==
    IF backend = "multicore" THEN TRUE
    ELSE scPc = "in_f" /\ stack # <<>> /\ Top = i

\* f itself may take a step: it has not returned, and in the fallback
\* backend no spawn call of it is still executing its closure.
FMayStep ==
    /\ scPc = "in_f"
    /\ scF = "none"
    /\ backend = "fallback" => stack = <<>>

\* scope entry: chunk size computed, f invoked with the scope handle.
ScopeCall(e) ==
    /\ scPc = "idle"
    /\ scElements' = e
    /\ scChunk' = ChunkArg(scWorker, e)
    /\ scFCalls' = scFCalls + 1
    /\ scPc' = "in_f"
    /\ UNCHANGED <<scWorker, scF, scResult, task, parent, stack, issued,
                   counter, lockHolder>>
    /\ UNCHANGED notScopeVars

\* A plausible slip: the fallback spawn queues its closure as a thread
\* would be, instead of calling it.
SpawnEffectDeferred(i, p) ==
    /\ task' = [task EXCEPT ![i] = "spawned"]
    /\ parent' = [parent EXCEPT ![i] = p]
    /\ issued' = Append(issued, i)
    /\ UNCHANGED stack

\* scope.spawn(closure) called by p (0: f) for closure i.
\*   multicore: crossbeam's Scope::spawn creates a thread for the closure
\*   fallback:  DummyScope::spawn is f(self): the closure is called at once
SpawnEffect(i, p) ==
    /\ parent' = [parent EXCEPT ![i] = p]
    /\ issued' = Append(issued, i)
    /\ IF backend = "multicore"
       THEN /\ task' = [task EXCEPT ![i] = "spawned"]
            /\ UNCHANGED stack
       ELSE /\ task' = [task EXCEPT ![i] = "running"]
            /\ stack' = Append(stack, i)

FSpawn(i) ==
    /\ FMayStep
    /\ i = Len(issued) + 1
    /\ i <= TaskLimit
    /\ SpawnEffect(i, 0)
    /\ UNCHANGED <<scWorker, scPc, scElements, scChunk, scFCalls, scF,
                   scResult, counter, lockHolder>>
    /\ UNCHANGED notScopeVars

\* multicore: the thread created for closure i begins to run it.
TaskBegin(i) ==
    /\ backend = "multicore"
    /\ task[i] = "spawned"
    /\ task' = [task EXCEPT ![i] = "running"]
    /\ UNCHANGED <<scWorker, scPc, scElements, scChunk, scFCalls, scF,
                   scResult, parent, stack, issued, counter, lockHolder>>
    /\ UNCHANGED notScopeVars

\* closure p spawns closure i through the handle it was given.
TaskSpawn(p, i) ==
    /\ task[p] = "running"
    /\ TaskMayStep(p)
    /\ i = Len(issued) + 1
    /\ i <= TaskLimit
    /\ SpawnEffect(i, p)
    /\ UNCHANGED <<scWorker, scPc, scElements, scChunk, scFCalls, scF,
                   scResult, counter, lockHolder>>
    /\ UNCHANGED notScopeVars

\* closure i takes the counter's mutex.
TaskLock(i) ==
    /\ task[i] = "running"
    /\ TaskMayStep(i)
    /\ lockHolder = 0
    /\ lockHolder' = i
    /\ task' = [task EXCEPT ![i] = "locked"]
    /\ UNCHANGED <<scWorker, scPc, scElements, scChunk, scFCalls, scF,
                   scResult, parent, stack, issued, counter>>
    /\ UNCHANGED notScopeVars

\* closure i increments the counter, releases the mutex and returns; in
\* the fallback backend the spawn call that ran it returns with it.
TaskIncrement(i) ==
    /\ task[i] = "locked"
    /\ TaskMayStep(i)
    /\ counter' = counter + 1
    /\ lockHolder' = 0
    /\ task' = [task EXCEPT ![i] = "done"]
    /\ stack' = IF backend = "fallback" THEN SubSeq(stack, 1, Len(stack) - 1)
                ELSE stack
    /\ UNCHANGED <<scWorker, scPc, scElements, scChunk, scFCalls, scF,
                   scResult, parent, issued>>
    /\ UNCHANGED notScopeVars

\* closure i panics.  multicore: its thread ends with the panic.  fallback:
\* the panic unwinds through every spawn call in progress, f and scope on
\* the calling thread, so the enclosing closures end with it.
TaskPanic(i) ==
    /\ task[i] = "running"
    /\ TaskMayStep(i)
    /\ IF backend = "multicore"
       THEN /\ task' = [task EXCEPT ![i] = "panicked"]
            /\ UNCHANGED <<scPc, stack>>
       ELSE /\ task' = [j \in Tasks |->
                           IF \E k \in 1..Len(stack) : stack[k] = j
                           THEN "panicked" ELSE task[j]]
            /\ stack' = <<>>
            /\ scPc' = "panicked"
    /\ UNCHANGED <<scWorker, scElements, scChunk, scFCalls, scF, scResult,
                   parent, issued, counter, lockHolder>>
    /\ UNCHANGED notScopeVars

\* f returns r.
FReturn(r) ==
    /\ FMayStep
    /\ scF' = <<"ret", r>>
    /\ scPc' = "f_done"
    /\ UNCHANGED <<scWorker, scElements, scChunk, scFCalls, scResult, task,
                   parent, stack, issued, counter, lockHolder>>
    /\ UNCHANGED notScopeVars

\* f panics.  crossbeam::scope catches the unwind until the threads are
\* joined; the fallback scope unwinds at once.
FPanic ==
    /\ FMayStep
    /\ scF' = "panic"
    /\ scPc' = IF backend = "multicore" THEN "f_done" ELSE "panicked"
    /\ UNCHANGED <<scWorker, scElements, scChunk, scFCalls, scResult, task,
                   parent, stack, issued, counter, lockHolder>>
    /\ UNCHANGED notScopeVars

Unfinished(i) == task[i] \in {"spawned", "running", "locked"}

\* A plausible slip: scope returns as soon as f has, without joining.
ScopeJoinNoWait ==
    /\ backend = "multicore"
    /\ scPc = "f_done"
    /\ IF scF = "panic" \/ \E i \in Tasks : task[i] = "panicked"
       THEN scPc' = "panicked" /\ UNCHANGED scResult
       ELSE scPc' = "returned" /\ scResult' = <<scF[2]>>
    /\ UNCHANGED <<scWorker, scElements, scChunk, scFCalls, scF, task,
                   parent, stack, issued, counter, lockHolder>>
    /\ UNCHANGED notScopeVars

\* A plausible slip: the joined threads' panics dropped instead of expected.
ScopeJoinSwallow ==
    /\ backend = "multicore"
    /\ scPc = "f_done"
    /\ \A i \in Tasks : ~Unfinished(i)
    /\ IF scF = "panic"
       THEN scPc' = "panicked" /\ UNCHANGED scResult
       ELSE scPc' = "returned" /\ scResult' = <<scF[2]>>
    /\ UNCHANGED <<scWorker, scElements, scChunk, scFCalls, scF, task,
                   parent, stack, issued, counter, lockHolder>>
    /\ UNCHANGED notScopeVars

\* crossbeam::scope(|scope| f(scope, chunk_size))
\*     .expect("Threads aren't allowed to fail yet")
\* crossbeam::scope joins every thread spawned through the handle, resumes
\* f's panic if f panicked, gives Err if a joined thread panicked and Ok(r)
\* otherwise; expect panics on Err.
ScopeJoin ==
    /\ backend = "multicore"
    /\ scPc = "f_done"
    /\ \A i \in Tasks : ~Unfinished(i)
    /\ IF scF = "panic" \/ \E i \in Tasks : task[i] = "panicked"
       THEN scPc' = "panicked" /\ UNCHANGED scResult
       ELSE scPc' = "returned" /\ scResult' = <<scF[2]>>
    /\ UNCHANGED <<scWorker, scElements, scChunk, scFCalls, scF, task,
                   parent, stack, issued, counter, lockHolder>>
    /\ UNCHANGED notScopeVars

\* fallback: scope is f(&DummyScope, elements); it returns what f returned.
ScopeReturn ==
    /\ backend = "fallback"
    /\ scPc = "f_done"
    /\ scPc' = "returned"
    /\ scResult' = <<scF[2]>>
    /\ UNCHANGED <<scWorker, scElements, scChunk, scFCalls, scF, task,
                   parent, stack, issued, counter, lockHolder>>
    /\ UNCHANGED notScopeVars

InitScope ==
    /\ backend \in Backends
    /\ NewIdle
    /\ ComputeIdle
    /\ LogIdle
    /\ scWorker \in IF backend = "multicore"
                    THEN {new_with_cpus(c) : c \in 1..MaxCpus}
                    ELSE {FallbackWorker}
    /\ scPc = "idle"
    /\ scElements = 0
    /\ scChunk = 0
    /\ scFCalls = 0
    /\ scF = "none"
    /\ scResult = <<>>
    /\ task = [i \in Tasks |-> "none"]
    /\ parent = [i \in Tasks |-> 0]
    /\ stack = <<>>
    /\ issued = <<>>
    /\ counter = 0
    /\ lockHolder = 0

NextScope ==
    \/ \E e \in 0..MaxElements : ScopeCall(e)
    \/ \E i \in Tasks : FSpawn(i)
    \/ \E i \in Tasks : TaskBegin(i)
    \/ \E p, i \in Tasks : TaskSpawn(p, i)
    \/ \E i \in Tasks : TaskLock(i)
    \/ \E i \in Tasks : TaskIncrement(i)
    \/ \E i \in Tasks : TaskPanic(i)
    \/ \E r \in 1..MaxResult : FReturn(r)
    \/ FPanic
    \/ ScopeJoin
    \/ ScopeReturn

SpecScope == InitScope /\ [][NextScope]_vars

\* The closures spawned so far.
Spawned == {i \in Tasks : task[i] # "none"}

\* The core count the chunk rule is stated for: the Worker's cpus, and 1
\* for the fallback Worker, which has none.
CpuCount == IF backend = "multicore" THEN scWorker.cpus ELSE 1

\* chunk is what the chunk rule gives for `elements` on `cpus` cores; the
\* quotient is characterised by the two products that bracket it.
ChunkRule(chunk, elements, cpus) ==
    IF elements < cpus THEN chunk = 1
    ELSE chunk * cpus <= elements /\ elements < (chunk + 1) * cpus

\* a is p itself or one of the closures that (transitively) spawned p.
RECURSIVE IsAncestorOrSelf(_, _)
IsAncestorOrSelf(a, p) ==
    IF p = 0 THEN FALSE
    ELSE IF a = p THEN TRUE
    ELSE IsAncestorOrSelf(a, parent[p])

(***************************************************************************)
(* C1: multicore backend.  Once scope has returned, every closure spawned  *)
(* through the handle (by f or by another closure) has finished: none is   *)
(* still running or not yet started, and the counter they increment under  *)
(* the lock equals the number k of closures spawned.                       *)
(***************************************************************************)
C1_ScopeJoinsAll ==
    (backend = "multicore" /\ scPc = "returned") =>
        /\ \A i \in Tasks : task[i] \in {"none", "done"}
        /\ counter = Len(issued)
        /\ Cardinality(Spawned) = Len(issued)

\* scope returned after f spawned closures, one of them from a closure.
C1_Witness ==
    /\ backend = "multicore"
    /\ scPc = "returned"
    /\ Len(issued) = MaxTasks
    /\ counter = MaxTasks
    /\ \E i \in Tasks : parent[i] # 0

(***************************************************************************)
(* C3: multicore backend.  scope invokes f exactly once, with chunk_size 1 *)
(* when elements < cpus and elements / cpus (integer division) otherwise,  *)
(* and what scope returns is the value f returned.                         *)
(***************************************************************************)
C3_ScopeChunkAndResult ==
    (backend = "multicore" /\ scPc # "idle") =>
        /\ scFCalls = 1
        /\ ChunkRule(scChunk, scElements, scWorker.cpus)
        /\ scPc = "returned" => scF # "none" /\ scF # "panic" /\ scResult = <<scF[2]>>
        /\ scPc # "returned" => scResult = <<>>

\* scope returned f's value after a division with a remainder.
C3_Witness ==
    /\ backend = "multicore"
    /\ scPc = "returned"
    /\ scWorker.cpus = 3
    /\ scElements = 4
    /\ scChunk = 1
    /\ scResult = <<MaxResult>>

(***************************************************************************)
(* C4: in both backends (the fallback counting as one core) the chunk_size *)
(* handed to f is at least 1 for every elements >= 0, elements = 0         *)
(* included, and follows the chunk rule.                                   *)
(***************************************************************************)
C4_ChunkAtLeastOne ==
    scPc # "idle" =>
        /\ scChunk >= 1
        /\ ChunkRule(scChunk, scElements, CpuCount)

C8_FallbackInOrder ==
    backend = "fallback" =>
        /\ \A i \in Tasks : task[i] # "spawned"
        /\ \A i \in Tasks :
               Unfinished(i) <=> \E k \in 1..Len(stack) : stack[k] = i
        /\ \A k \in 1..Len(stack) :
               parent[stack[k]] = IF k = 1 THEN 0 ELSE stack[k - 1]
        /\ \A i, j \in Spawned :
               i < j => task[i] = "done" \/ IsAncestorOrSelf(i, j)
        /\ issued = [k \in 1..Len(issued) |-> k]
        /\ scPc \in {"f_done", "returned"} =>
               \A i \in Tasks : task[i] \in {"none", "done"}
        /\ scPc = "returned" => counter = Len(issued)

\* Five spawns, one of them nested, all finished, scope returned.
C8_Witness ==
    /\ backend = "fallback"
    /\ scPc = "returned"
    /\ Len(issued) = MaxInline
    /\ counter = MaxInline
    /\ \E i \in Tasks : parent[i] # 0
(***************************************************************************)
(* Worker::compute and the handle it returns.                              *)
(*   multicore: self.pool.spawn_fn(f) queues lazy(f) on the CpuPool and    *)
(*     returns a CpuFuture, the receiving end of a oneshot channel.  A     *)
(*     pool thread that takes the task first looks whether the CpuFuture   *)
(*     was dropped (and not forgotten: this file never calls forget) and   *)
(*     then ends the task without running it; otherwise it runs f and      *)
(*     sends the outcome, ignoring a receiver that is gone.                *)
(*   fallback: f().into_future() runs f on the spot; the handle is a       *)
(*     FutureResult already holding the outcome.                           *)
(* Both handles give their value to the first poll that finds it and panic *)
(* when polled after that ("cannot poll ... twice").                       *)
(***************************************************************************)
\* What the f of compute call j may return: success Ok(j) or failure
\* Err(j); the calls return different values.
Outcomes(j) == {<<k, j>> : k \in {"Ok", "Err"}}

Running == {j \in Jobs : job[j] = "running"}

\* A plausible slip: the fallback compute defers f as the pool does,
\* returning a handle that is not resolved yet.
ComputeEffectDeferred(j, out) ==
    /\ job' = [job EXCEPT ![j] = "queued"]
    /\ queue' = Append(queue, j)
    /\ UNCHANGED <<executed, slot>>

\* WorkerFuture { future: self.pool.spawn_fn(f) }   (multicore)
\* f().into_future()                                (fallback)
ComputeEffect(j, out) ==
    IF backend = "multicore"
    THEN /\ job' = [job EXCEPT ![j] = "queued"]
         /\ queue' = Append(queue, j)
         /\ UNCHANGED <<executed, slot>>
    ELSE /\ job' = [job EXCEPT ![j] = "finished"]
         /\ executed' = [executed EXCEPT ![j] = TRUE]
         /\ slot' = [slot EXCEPT ![j] = <<out>>]
         /\ UNCHANGED queue

Compute(j, out) ==
    /\ handle[j] = "none"
    /\ \A i \in Jobs : i < j => handle[i] # "none"
    /\ fOut' = [fOut EXCEPT ![j] = out]
    /\ handle' = [handle EXCEPT ![j] = "held"]
    /\ ComputeEffect(j, out)
    /\ UNCHANGED <<cpWorker, yielded, sawNotReady>>
    /\ UNCHANGED notComputeVars

\* A free pool thread takes the oldest queued task.
PoolStart(j) ==
    /\ backend = "multicore"
    /\ queue # <<>>
    /\ j = Head(queue)
    /\ Cardinality(Running) < cpWorker.pool
    /\ queue' = Tail(queue)
    /\ job' = [job EXCEPT ![j] = IF handle[j] = "dropped" THEN "cancelled"
                                 ELSE "running"]
    /\ UNCHANGED <<cpWorker, fOut, executed, slot, handle, yielded, sawNotReady>>
    /\ UNCHANGED notComputeVars

\* A plausible slip: the outcome is not handed to the handle.
PoolFinishNoSend(j) ==
    /\ job[j] = "running"
    /\ job' = [job EXCEPT ![j] = "finished"]
    /\ executed' = [executed EXCEPT ![j] = TRUE]
    /\ UNCHANGED <<cpWorker, queue, fOut, slot, handle, yielded, sawNotReady>>
    /\ UNCHANGED notComputeVars

\* A plausible slip: a handle dropped while f runs stops f as well.
PoolFinishAborts(j) ==
    /\ job[j] = "running"
    /\ job' = [job EXCEPT ![j] = "finished"]
    /\ executed' = [executed EXCEPT ![j] = handle[j] # "dropped"]
    /\ slot' = [slot EXCEPT ![j] = IF handle[j] = "dropped" THEN <<>>
                                   ELSE <<fOut[j]>>]
    /\ UNCHANGED <<cpWorker, queue, fOut, handle, yielded, sawNotReady>>
    /\ UNCHANGED notComputeVars

\* The pool thread runs f to its end and sends what it returned.
PoolFinish(j) ==
    /\ job[j] = "running"
    /\ job' = [job EXCEPT ![j] = "finished"]
    /\ executed' = [executed EXCEPT ![j] = TRUE]
    /\ slot' = [slot EXCEPT ![j] = IF handle[j] = "dropped" THEN <<>>
                                   ELSE <<fOut[j]>>]
    /\ UNCHANGED <<cpWorker, queue, fOut, handle, yielded, sawNotReady>>
    /\ UNCHANGED notComputeVars

\* WorkerFuture::poll: self.future.poll(), on a handle that has not
\* yielded its value yet.
Poll(j) ==
    /\ handle[j] = "held"
    /\ yielded[j] = <<>>
    /\ IF slot[j] # <<>>
       THEN /\ yielded' = [yielded EXCEPT ![j] = Append(@, slot[j][1])]
            /\ slot' = [slot EXCEPT ![j] = <<>>]
            /\ UNCHANGED sawNotReady
       ELSE /\ sawNotReady' = [sawNotReady EXCEPT ![j] = TRUE]
            /\ UNCHANGED <<yielded, slot>>
    /\ UNCHANGED <<cpWorker, job, queue, fOut, executed, handle>>
    /\ UNCHANGED notComputeVars

\* poll on a handle that has yielded its value: the wrapped future panics.
PollAgain(j) ==
    /\ handle[j] = "held"
    /\ yielded[j] # <<>>
    /\ handle' = [handle EXCEPT ![j] = "poll_panic"]
    /\ UNCHANGED <<cpWorker, job, queue, fOut, executed, slot, yielded,
                   sawNotReady>>
    /\ UNCHANGED notComputeVars

\* The caller drops the handle, and with it a value it still holds.
Drop(j) ==
    /\ handle[j] = "held"
    /\ handle' = [handle EXCEPT ![j] = "dropped"]
    /\ slot' = [slot EXCEPT ![j] = <<>>]
    /\ UNCHANGED <<cpWorker, job, queue, fOut, executed, yielded, sawNotReady>>
    /\ UNCHANGED notComputeVars

InitCompute ==
    /\ backend \in Backends
    /\ NewIdle
    /\ ScopeIdle
    /\ LogIdle
    /\ cpWorker \in IF backend = "multicore"
                    THEN {new_with_cpus(c) : c \in 1..MaxCpus}
                    ELSE {FallbackWorker}
    /\ job = [j \in Jobs |-> "none"]
    /\ queue = <<>>
    /\ fOut = [j \in Jobs |-> "none"]
    /\ executed = [j \in Jobs |-> FALSE]
    /\ slot = [j \in Jobs |-> <<>>]
    /\ handle = [j \in Jobs |-> "none"]
    /\ yielded = [j \in Jobs |-> <<>>]
    /\ sawNotReady = [j \in Jobs |-> FALSE]

NextCompute ==
    \/ \E j \in Jobs : \E out \in Outcomes(j) : Compute(j, out)
    \/ \E j \in Jobs : PoolStart(j)
    \/ \E j \in Jobs : PoolFinish(j)
    \/ \E j \in Jobs : Poll(j)
    \/ \E j \in Jobs : PollAgain(j)
    \/ \E j \in Jobs : Drop(j)

SpecCompute == InitCompute /\ [][NextCompute]_vars

\* Pool threads are scheduled fairly, and a caller that keeps a handle
\* keeps polling it until it has its value.
FairCompute ==
    \A j \in Jobs :
        /\ WF_vars(PoolStart(j))
        /\ WF_vars(PoolFinish(j))
        /\ WF_vars(Poll(j))

FairSpecCompute == SpecCompute /\ FairCompute

\* compute call j has been made and has returned its handle.
Computed(j) == handle[j] # "none"

(***************************************************************************)
(* C2: a handle that is kept and polled yields what f returned, success v  *)
(* or failure e, and yields a terminal value at most once: under fair      *)
(* scheduling of the pool threads in the multicore backend, and in the     *)
(* fallback backend.  (A handle the caller drops is not kept.)             *)
(***************************************************************************)
C2_PolledHandleYields ==
    /\ [](\A j \in Jobs :
            /\ Len(yielded[j]) <= 1
            /\ yielded[j] # <<>> => yielded[j] = <<fOut[j]>>)
    /\ \A j \in Jobs :
           Computed(j) ~> (yielded[j] = <<fOut[j]>> \/ handle[j] = "dropped")

\* multicore: one handle was polled too early, then yielded Ok(v); the
\* other yielded Err(e).
C2_Witness ==
    /\ backend = "multicore"
    /\ \E i, j \in Jobs :
           /\ sawNotReady[i]
           /\ yielded[i] = <<(<<"Ok", i>>)>>
           /\ yielded[j] = <<(<<"Err", j>>)>>

C9_FallbackAlreadyResolved ==
    \A j \in Jobs :
        (backend = "fallback" /\ Computed(j)) =>
            /\ executed[j]
            /\ job[j] = "finished"
            /\ ~sawNotReady[j]
            /\ (handle[j] = "held" /\ yielded[j] = <<>>) => slot[j] = <<fOut[j]>>
            /\ yielded[j] # <<>> => yielded[j] = <<fOut[j]>>

\* fallback: one handle polled once and resolved to Err(e), another still
\* unpolled and already holding Ok(v).
C9_Witness ==
    /\ backend = "fallback"
    /\ \E i, j \in Jobs :
           /\ yielded[i] = <<(<<"Err", i>>)>>
           /\ handle[j] = "held"
           /\ yielded[j] = <<>>
           /\ slot[j] = <<(<<"Ok", j>>)>>
           /\ executed[j]
(***************************************************************************)
(* log2_floor and Worker::log_num_cpus.  num is a usize of WordBits bits,  *)
(* and so is the literal 1 that is shifted; pow is a u32.  A shift by      *)
(* WordBits or more panics in a build with overflow checks and shifts by   *)
(* the amount modulo WordBits in a build without.                          *)
(***************************************************************************)
RECURSIVE Pow2(_)
Pow2(k) == IF k = 0 THEN 1 ELSE 2 * Pow2(k - 1)

\* The largest usize.
MaxNum == Pow2(WordBits) - 1

\* 1 << sh overflows.
ShlOverflows(sh) == sh >= WordBits

\* 1 << sh, the shift amount wrapped as the unchecked build wraps it.
Shl1(sh) == Pow2(sh % WordBits)

\* A plausible slip: < for <= in the loop condition.
LoopCondStrict(pow, num) == Shl1(pow + 1) < num

\* (1 << (pow + 1)) <= num
LoopCond(pow, num) == Shl1(pow + 1) <= num

\* pub fn log_num_cpus(&self) -> u32: log2_floor(self.cpus) in the
\* multicore backend, 0 in the fallback backend.
LogNumCpus ==
    /\ lgPc = "idle"
    /\ lgVia' = "log_num_cpus"
    /\ IF backend = "multicore"
       THEN /\ lgNum' = lgWorker.cpus
            /\ lgPc' = "assert"
            /\ UNCHANGED lgRet
       ELSE /\ lgRet' = <<0>>
            /\ lgPc' = "returned"
            /\ UNCHANGED lgNum
    /\ UNCHANGED <<overflowChecks, lgWorker, lgPow>>
    /\ UNCHANGED notLogVars

\* log2_floor(n) called as test_log2_floor calls it.
Log2Call(n) ==
    /\ backend = "multicore"
    /\ lgPc = "idle"
    /\ lgVia' = "direct"
    /\ lgNum' = n
    /\ lgPc' = "assert"
    /\ UNCHANGED <<overflowChecks, lgWorker, lgPow, lgRet>>
    /\ UNCHANGED notLogVars

\* A plausible slip: the assertion left out.
Log2AssertMissing ==
    /\ lgPc = "assert"
    /\ lgPc' = "loop"
    /\ lgPow' = 0
    /\ UNCHANGED <<overflowChecks, lgWorker, lgVia, lgNum, lgRet>>
    /\ UNCHANGED notLogVars

\* assert!(num > 0); let mut pow = 0;
Log2Assert ==
    /\ lgPc = "assert"
    /\ lgPc' = IF lgNum > 0 THEN "loop" ELSE "assert_failed"
    /\ lgPow' = 0
    /\ UNCHANGED <<overflowChecks, lgWorker, lgVia, lgNum, lgRet>>
    /\ UNCHANGED notLogVars

\* while (1 << (pow + 1)) <= num { pow += 1; }  pow
Log2Loop ==
    /\ lgPc = "loop"
    /\ lgPow < MaxPow
    /\ IF ShlOverflows(lgPow + 1) /\ overflowChecks
       THEN lgPc' = "overflow_panic" /\ UNCHANGED <<lgPow, lgRet>>
       ELSE IF LoopCond(lgPow, lgNum)
            THEN lgPow' = lgPow + 1 /\ UNCHANGED <<lgPc, lgRet>>
            ELSE lgPc' = "returned" /\ lgRet' = <<lgPow>> /\ UNCHANGED lgPow
    /\ UNCHANGED <<overflowChecks, lgWorker, lgVia, lgNum>>
    /\ UNCHANGED notLogVars

InitLog ==
    /\ backend \in Backends
    /\ NewIdle
    /\ ScopeIdle
    /\ ComputeIdle
    /\ overflowChecks \in BOOLEAN
    /\ lgWorker \in IF backend = "multicore"
                    THEN {new_with_cpus(c) : c \in 1..MaxCpus}
                    ELSE {FallbackWorker}
    /\ lgVia = "none"
    /\ lgPc = "idle"
    /\ lgNum = 0
    /\ lgPow = 0
    /\ lgRet = <<>>

NextLog ==
    \/ LogNumCpus
    \/ \E n \in 0..MaxNum : Log2Call(n)
    \/ Log2Assert
    \/ Log2Loop

SpecLog == InitLog /\ [][NextLog]_vars

\* assert_eq!(log2_floor(1), 0); ... assert_eq!(log2_floor(8), 3);
test_log2_floor == <<0, 1, 1, 2, 2, 2, 2, 3>>

C11_Log2FloorZeroFails ==
    (backend = "multicore" /\ lgPc # "idle") =>
        /\ lgVia = "log_num_cpus" => lgNum = lgWorker.cpus
        /\ lgNum = 0 =>
               /\ lgPc \in {"assert", "assert_failed"}
               /\ lgPow = 0
               /\ lgRet = <<>>
               /\ lgPc = "assert" => ENABLED Log2Assert

\* log2_floor(0) has failed its assertion.
C11_Witness ==
    /\ lgVia = "direct"
    /\ lgNum = 0
    /\ lgPc = "assert_failed"
    /\ lgRet = <<>>
(***************************************************************************)
(* C12: the fallback Worker and a multicore Worker with one core give the  *)
(* caller the same observable results for the same scope call: the chunk   *)
(* size handed to f is the one the other backend hands to f for the same   *)
(* `elements`, and once scope has returned every closure has had its       *)
(* effect on the shared counter and scope's value is f's.                  *)
(***************************************************************************)
C12_BackendsAgreeOnScope ==
    (scPc # "idle" /\ CpuCount = 1) =>
        /\ scChunk = chunk_size(scElements, 1)
        /\ scChunk = scElements
        /\ scPc = "returned" => counter = Len(issued) /\ scResult = <<scF[2]>>

(***************************************************************************)
(* C13 as stated: across any interleaving of Worker::new() calls NUM_CPUS  *)
(* is stored at most once.                                                 *)
(***************************************************************************)
C13_StoredAtMostOnce == numStores <= 1

(***************************************************************************)
(* C13 amended: only calls that read HAS_LOADED before it was set store to *)
(* NUM_CPUS.  Once HAS_LOADED is set no call enters the storing branch, so *)
(* a thread stores at most once (at most NThreads stores in all), and      *)
(* every store writes the detected count.                                  *)
(***************************************************************************)
C13_StoresOnlyBeforeFlag ==
    /\ [](/\ numStores <= NThreads
          /\ numStores > 0 => NUM_CPUS = detected)
    /\ [][\A t \in Threads :
              (HAS_LOADED /\ newPc[t] # "store_num") => newPc'[t] # "store_num"]_vars

\* Every thread has stored, and a second call of some thread is past the
\* flag test without a store of its own.
C13_Witness ==
    /\ numStores = NThreads
    /\ HAS_LOADED
    /\ \E t \in Threads : Len(workers[t]) >= 1 /\ newPc[t] = "load_num"

(***************************************************************************)
(* C14: while HAS_LOADED is true NUM_CPUS holds the detected core count,   *)
(* NUM_CPUS does not change once HAS_LOADED is true, and HAS_LOADED, once  *)
(* true, never becomes false.                                              *)
(***************************************************************************)
C14_LoadedIsStable ==
    /\ [](HAS_LOADED => NUM_CPUS = detected)
    /\ [][HAS_LOADED => (HAS_LOADED' /\ NUM_CPUS' = NUM_CPUS)]_vars

\* The flag is set and NUM_CPUS stored, while a thread that read the flag as
\* unset is about to store NUM_CPUS again.
C14_Witness ==
    /\ HAS_LOADED
    /\ numStores >= 1
    /\ NUM_CPUS = detected
    /\ \E t \in Threads : newPc[t] = "store_num"

(***************************************************************************)
(* C15: building a multicore Worker with zero cores aborts at              *)
(* construction.  No Worker with cpus = 0 (or an empty pool) exists, a     *)
(* thread that only calls Worker::new() never gets a Worker when the       *)
(* detected count is 0, and no method of a constructed Worker sees         *)
(* cpus = 0 (so scope never divides by it and log_num_cpus never hands it  *)
(* to log2_floor).                                                         *)
(***************************************************************************)
C15_NoZeroCoreWorker ==
    /\ \A w \in AllWorkers : w.cpus >= 1 /\ w.pool >= 1
    /\ detected = 0 => \A t \in Threads \ Users : workers[t] = <<>>
    /\ \A t \in Threads : newPc[t] = "load_num" => NUM_CPUS = detected
    /\ observed # <<>> => observed[1].cpus >= 1

\* Detection yields 0: a thread that called Worker::new() has panicked, and
\* so has one that held a Worker built by new_with_cpus and used it.
C15_Witness ==
    /\ detected = 0
    /\ \E t \in Threads \ Users : newPc[t] = "panicked"
    /\ \E t \in Users :
           /\ newPc[t] = "panicked"
           /\ Len(workers[t]) >= 1
    /\ observed # <<>>

(***************************************************************************)
(* C16: a Worker's cpus is fixed at construction.  No step (a method call, *)
(* a clone, a later Worker::new() call, a store to NUM_CPUS) changes the   *)
(* cpus or the pool of a Worker that already exists, and a clone has the   *)
(* cpus of its original and holds the same pool.                           *)
(***************************************************************************)
C16_CpusFixed ==
    /\ [][\A t \in Threads :
              /\ Len(workers'[t]) >= Len(workers[t])
              /\ \A i \in 1..Len(workers[t]) :
                     /\ workers'[t][i] = workers[t][i]
                     /\ handles'[t][i] = handles[t][i]]_vars
    /\ [][\A t \in Users, i \in 1..MaxCalls :
              Clone(t, i) =>
                  /\ Len(workers'[t]) = Len(workers[t]) + 1
                  /\ workers'[t][Len(workers'[t])] = workers[t][i]
                  /\ handles'[t][Len(handles'[t])] = handles[t][i]]_vars
    /\ [](observed # <<>> => observed[1] \in AllWorkers)

\* A Worker built before NUM_CPUS was stored and its clone: NUM_CPUS has
\* been stored since and differs from their cpus, and a method has been
\* called on the clone.
C16_Witness ==
    \E t \in Users :
        /\ Len(workers[t]) = 2
        /\ workers[t][2] = workers[t][1]
        /\ handles[t][2] = handles[t][1]
        /\ numStores >= 1
        /\ NUM_CPUS # workers[t][1].cpus
        /\ observed = <<workers[t][2]>>

(***************************************************************************)
(* C17: for every n in 1..2^w - 1, n >= 2^(w-1) included, log2_floor never *)
(* shifts 1 by w or more bits, ends without an overflow, and pow stays at  *)
(* most w - 1.                                                             *)
(***************************************************************************)
C17_NoShiftOverflow ==
    (backend = "multicore" /\ lgNum >= 1) =>
        /\ lgPc = "loop" => ~ShlOverflows(lgPow + 1)
        /\ lgPc # "overflow_panic"
        /\ lgPow <= WordBits - 1

\* The chunks a caller gets that cuts `elements` into consecutive chunks of
\* `chunk` elements, the last one possibly shorter.
NumChunks(elements, chunk) == (elements + chunk - 1) \div chunk

(***************************************************************************)
(* C18: multicore backend.  For elements >= cpus the chunk size brackets   *)
(* elements between chunk * cpus and (chunk + 1) * cpus, so cutting        *)
(* elements into chunks of that size gives at least cpus and at most       *)
(* 2 * cpus - 1 chunks; for 1 <= elements < cpus it gives exactly          *)
(* `elements` chunks.                                                      *)
(***************************************************************************)
C18_ChunkCount ==
    (backend = "multicore" /\ scPc # "idle") =>
        /\ scChunk >= 1
        /\ scElements >= scWorker.cpus =>
               /\ scChunk * scWorker.cpus <= scElements
               /\ scElements < (scChunk + 1) * scWorker.cpus
               /\ NumChunks(scElements, scChunk) >= scWorker.cpus
               /\ NumChunks(scElements, scChunk) <= 2 * scWorker.cpus - 1
        /\ (1 <= scElements /\ scElements < scWorker.cpus) =>
               NumChunks(scElements, scChunk) = scElements

\* Two cores, three elements: chunks of one element, 2 * cpus - 1 of them.
C18_Witness ==
    /\ backend = "multicore"
    /\ scPc = "returned"
    /\ scWorker.cpus = 2
    /\ scElements = 3
    /\ scChunk = 1
    /\ NumChunks(scElements, scChunk) = 3
====
